---- MODULE Spec2Model ----
(***************************************************************************)
(* Model of address_book.py: Record (a name and a list of Phone values,   *)
(* gated by is_phone_valid) and AddressBook (a UserDict from name to      *)
(* Record).                                                                *)
(*                                                                         *)
(* A Python str is modelled as the sequence of its code points, so that   *)
(* len() and str.isnumeric() are computed character by character.  A      *)
(* Record is an object on a heap (the sequence `records`, in allocation   *)
(* order) and the AddressBook holds references (heap indices), as the     *)
(* Python dict does.  A Phone is modelled by its value.                   *)
(***************************************************************************)
EXTENDS Integers, Sequences, FiniteSets, TLC

VARIABLES
    records,    \* the heap of Record objects: records[r] = [name, phones]
    data,       \* AddressBook.data: a function from names to heap indices
    passed,     \* history: under each name, the record the caller last passed
                \* to add_record and has not deleted since
    last,       \* history: the last call, with what it was given and returned
    inp         \* the string handed to is_phone_valid in SpecValid

vars == <<records, data, passed, last, inp>>

----------------------------------------------------------------------------
(* Bounds of the model. *)

MaxPhones == 3      \* phones per record in SpecRecord
MaxRecs == 2        \* Record objects ever constructed in Spec
MaxListed == 2      \* phones held by all the records together in Spec
MaxLen == 11        \* length of the strings handed to is_phone_valid

(* Program constant: the length test of is_phone_valid. *)
PhoneLen == 10

----------------------------------------------------------------------------
(* Strings. *)

\* "1234567890" and "0987654321", the two numbers of test_record.
Phone1 == <<49, 50, 51, 52, 53, 54, 55, 56, 57, 48>>
Phone2 == <<48, 57, 56, 55, 54, 53, 52, 51, 50, 49>>
\* "123456789" (9 digits), "123456789a" and "123456789" followed by U+00BD,
\* the vulgar fraction one half.
Short9 == <<49, 50, 51, 52, 53, 54, 55, 56, 57>>
Alpha10 == <<49, 50, 51, 52, 53, 54, 55, 56, 57, 97>>
Half10 == <<49, 50, 51, 52, 53, 54, 55, 56, 57, 189>>

\* The phone arguments of the calls on a lone record (SpecRecord), and those
\* of the calls in the address-book specification (Spec), where only
\* accepted numbers are passed: rejection is SpecRecord's subject.
PhoneInputs == {Phone1, Phone2, Short9, Alpha10, Half10}
BookPhoneInputs == {Phone1, Phone2}

\* The characters of the strings of SpecValid: "7", "a" and U+00BD.
Alphabet == {55, 97, 189}
Strings == UNION {[1..n -> Alphabet] : n \in 0..MaxLen}

Names == {"John Doe", "Jane Doe"}

\* Python's test for a numeric character (Unicode Numeric_Type Decimal,
\* Digit or Numeric), on the Latin-1 code points 0..255: the ASCII digits,
\* the superscripts two, three and one, and the fractions one quarter,
\* one half and three quarters.
IsNumericChar(c) == c \in 48..57 \/ c \in {178, 179, 185, 188, 189, 190}

\* str.isnumeric(): at least one character, and every character numeric.
isnumeric(s) == Len(s) > 0 /\ \A i \in 1..Len(s) : IsNumericChar(s[i])

\* Record.is_phone_valid
is_phone_valid(phone) == Len(phone) = PhoneLen /\ isnumeric(phone)

----------------------------------------------------------------------------
(* Optional values: None is the empty tuple, a present value a 1-tuple. *)

None == <<>>
Some(v) == <<v>>

----------------------------------------------------------------------------
(* Record's methods on the phones list. *)

\* The loop `for index, p in enumerate(self.phones): if p.value == v`:
\* the first index from i on whose phone equals v, 0 when the loop ends
\* without a match.
RECURSIVE Scan(_, _, _)
Scan(phones, v, i) ==
    IF i > Len(phones) THEN 0
    ELSE IF phones[i] = v THEN i
    ELSE Scan(phones, v, i + 1)

\* del self.phones[index]
DelAt(phones, i) == SubSeq(phones, 1, i - 1) \o SubSeq(phones, i + 1, Len(phones))

\* The mutant of add_phone that appends without asking is_phone_valid.
add_phone_unchecked(phones, phone) == Append(phones, phone)

\* Record.add_phone
add_phone(phones, phone) ==
    IF is_phone_valid(phone) THEN Append(phones, phone) ELSE phones

\* The mutant of remove_phone whose loop has no break: every match goes.
remove_phone_all(phones, phone) == SelectSeq(phones, LAMBDA q : q # phone)

\* Record.remove_phone
remove_phone(phones, phone) ==
    LET index == Scan(phones, phone, 1)
    IN  IF index = 0 THEN phones ELSE DelAt(phones, index)

\* The mutant of edit_phone whose loop has no break: every match is replaced.
edit_phone_all(phones, old_value, new_value) ==
    IF is_phone_valid(new_value)
    THEN [i \in 1..Len(phones) |->
             IF phones[i] = old_value THEN new_value ELSE phones[i]]
    ELSE phones

\* Record.edit_phone
edit_phone(phones, old_value, new_value) ==
    IF is_phone_valid(new_value)
    THEN LET index == Scan(phones, old_value, 1)
         IN  IF index = 0 THEN phones ELSE [phones EXCEPT ![index] = new_value]
    ELSE phones

\* Record.find_phone
find_phone(phones, phone) ==
    LET index == Scan(phones, phone, 1)
    IN  IF index = 0 THEN None ELSE Some(phones[index])

---------------------------------------------------------------------------------------------------------------------------------------------------
(* AddressBook's methods on the dict.  A method that can raise yields the  *)
(* dict it leaves behind and the exception raised, None when it returns.   *)

\* The mutant of Update that keeps the entry a key already has (setdefault).
Update_keep(d, key, r) ==
    [k \in DOMAIN d \cup {key} |-> IF k \in DOMAIN d THEN d[k] ELSE r]

\* self.data.update({key: r})
Update(d, key, r) == [k \in DOMAIN d \cup {key} |-> IF k = key THEN r ELSE d[k]]

\* self.data.get(name)
find(d, name) == IF name \in DOMAIN d THEN Some(d[name]) ELSE None

\* self.data.pop(name): KeyError when the key is missing.
Pop(d, name) ==
    IF name \in DOMAIN d
    THEN [data |-> [k \in DOMAIN d \ {name} |-> d[k]], raised |-> None]
    ELSE [data |-> d, raised |-> Some("KeyError")]

\* The mutant of delete that pops without the membership test.
delete_unguarded(d, name) == Pop(d, name)

\* AddressBook.delete
delete(d, name) ==
    IF name \in DOMAIN d THEN Pop(d, name) ELSE [data |-> d, raised |-> None]

----------------------------------------------------------------------------
(* The calls.  `last` is the call record of the last call: op, the method; *)
(* rec, the Record it was called on or with; name, a and b, its arguments; *)
(* pre, the phones of rec before the call; was, what the address book held *)
(* under name before the call; ret, the value returned; raised, the        *)
(* exception raised.                                                       *)

NoCall == [op |-> "none", rec |-> 0, name |-> "", a |-> <<>>, b |-> <<>>,
           pre |-> <<>>, was |-> None, ret |-> None, raised |-> None]

Allocated == 1..Len(records)

\* Record.__init__
NewRecord(name) ==
    /\ records' = Append(records, [name |-> name, phones |-> <<>>])
    /\ last' = [NoCall EXCEPT !.op = "Record", !.rec = Len(records) + 1, !.name = name]
    /\ UNCHANGED <<data, passed, inp>>

\* r.is_phone_valid(phone)
IsPhoneValid(r, phone) ==
    /\ r \in Allocated
    /\ last' = [NoCall EXCEPT !.op = "is_phone_valid", !.rec = r, !.a = phone,
                              !.pre = records[r].phones,
                              !.ret = Some(is_phone_valid(phone))]
    /\ UNCHANGED <<records, data, passed, inp>>

\* r.add_phone(phone)
AddPhone(r, phone) ==
    /\ r \in Allocated
    /\ records' = [records EXCEPT ![r].phones = add_phone(@, phone)]
    /\ last' = [NoCall EXCEPT !.op = "add_phone", !.rec = r, !.a = phone,
                              !.pre = records[r].phones]
    /\ UNCHANGED <<data, passed, inp>>

\* r.remove_phone(phone)
RemovePhone(r, phone) ==
    /\ r \in Allocated
    /\ records' = [records EXCEPT ![r].phones = remove_phone(@, phone)]
    /\ last' = [NoCall EXCEPT !.op = "remove_phone", !.rec = r, !.a = phone,
                              !.pre = records[r].phones]
    /\ UNCHANGED <<data, passed, inp>>

\* r.edit_phone(old_value, new_value)
EditPhone(r, old_value, new_value) ==
    /\ r \in Allocated
    /\ records' = [records EXCEPT ![r].phones = edit_phone(@, old_value, new_value)]
    /\ last' = [NoCall EXCEPT !.op = "edit_phone", !.rec = r, !.a = old_value,
                              !.b = new_value, !.pre = records[r].phones]
    /\ UNCHANGED <<data, passed, inp>>

\* r.find_phone(phone)
FindPhone(r, phone) ==
    /\ r \in Allocated
    /\ last' = [NoCall EXCEPT !.op = "find_phone", !.rec = r, !.a = phone,
                              !.pre = records[r].phones,
                              !.ret = find_phone(records[r].phones, phone)]
    /\ UNCHANGED <<records, data, passed, inp>>

\* The mutant of AddRecord that stores a copy of the record: a new object
\* with the record's name and phones.
AddRecord_copy(r) ==
    /\ r \in Allocated
    /\ records' = Append(records, records[r])
    /\ data' = Update(data, records[r].name, Len(records) + 1)
    /\ passed' = Update(passed, records[r].name, r)
    /\ last' = [NoCall EXCEPT !.op = "add_record", !.rec = r, !.name = records[r].name,
                              !.pre = records[r].phones,
                              !.was = find(data, records[r].name)]
    /\ UNCHANGED inp

\* The mutant of AddRecord that merges: the phones of the record already
\* held under the name are put in front of the new record's.
AddRecord_merge(r) ==
    /\ r \in Allocated
    /\ records' = IF records[r].name \in DOMAIN data /\ data[records[r].name] # r
                  THEN [records EXCEPT ![r].phones = records[data[records[r].name]].phones \o @]
                  ELSE records
    /\ data' = Update(data, records[r].name, r)
    /\ passed' = Update(passed, records[r].name, r)
    /\ last' = [NoCall EXCEPT !.op = "add_record", !.rec = r, !.name = records[r].name,
                              !.pre = records[r].phones,
                              !.was = find(data, records[r].name)]
    /\ UNCHANGED inp

\* address_book.add_record(r): the reference r is stored under r.name.value.
AddRecord(r) ==
    /\ r \in Allocated
    /\ data' = Update(data, records[r].name, r)
    /\ passed' = Update(passed, records[r].name, r)
    /\ last' = [NoCall EXCEPT !.op = "add_record", !.rec = r, !.name = records[r].name,
                              !.pre = records[r].phones,
                              !.was = find(data, records[r].name)]
    /\ UNCHANGED <<records, inp>>

\* address_book.find(name)
Find(name) ==
    /\ last' = [NoCall EXCEPT !.op = "find", !.name = name,
                              !.was = find(data, name), !.ret = find(data, name)]
    /\ UNCHANGED <<records, data, passed, inp>>

\* address_book.delete(name)
Delete(name) ==
    /\ data' = delete(data, name).data
    /\ passed' = [k \in DOMAIN passed \ {name} |-> passed[k]]
    /\ last' = [NoCall EXCEPT !.op = "delete", !.name = name,
                              !.was = find(data, name),
                              !.raised = delete(data, name).raised]
    /\ UNCHANGED <<records, inp>>

-----
(* Spec: an address book and the records its caller constructs. *)

\* The number of phones held by the records from index i on.
RECURSIVE Listed(_, _)
Listed(recs, i) ==
    IF i > Len(recs) THEN 0 ELSE Len(recs[i].phones) + Listed(recs, i + 1)

Init ==
    /\ records = <<>>
    /\ data = <<>>
    /\ passed = <<>>
    /\ last = NoCall
    /\ inp = <<>>

Next ==
    \/ \E name \in Names : Len(records) < MaxRecs /\ NewRecord(name)
    \/ \E r \in Allocated, p \in BookPhoneInputs :
          Listed(records, 1) < MaxListed /\ AddPhone(r, p)
    \/ \E r \in Allocated, p \in BookPhoneInputs : RemovePhone(r, p)
    \/ \E r \in Allocated, p, q \in BookPhoneInputs : EditPhone(r, p, q)
    \/ \E r \in Allocated, p \in BookPhoneInputs : FindPhone(r, p)
    \/ \E r \in Allocated, p \in BookPhoneInputs : IsPhoneValid(r, p)
    \/ \E r \in Allocated : AddRecord(r)
    \/ \E name \in Names : Find(name)
    \/ \E name \in Names : Delete(name)

Spec == Init /\ [][Next]_vars

----------------------------------------------------------------------------
(* SpecRecord: one record, Record("John Doe"), and the calls on its phones. *)

InitRecord ==
    /\ records = <<[name |-> "John Doe", phones |-> <<>>]>>
    /\ data = <<>>
    /\ passed = <<>>
    /\ last = NoCall
    /\ inp = <<>>

NextRecord ==
    \/ \E p \in PhoneInputs : Len(records[1].phones) < MaxPhones /\ AddPhone(1, p)
    \/ \E p \in PhoneInputs : RemovePhone(1, p)
    \/ \E p, q \in PhoneInputs : EditPhone(1, p, q)
    \/ \E p \in PhoneInputs : FindPhone(1, p)
    \/ \E p \in PhoneInputs : IsPhoneValid(1, p)

SpecRecord == InitRecord /\ [][NextRecord]_vars

----------------------------------------------------------------------------
(* SpecValid: is_phone_valid applied to every string over Alphabet of     *)
(* length at most MaxLen.                                                  *)

InitValid ==
    /\ records = <<[name |-> "John Doe", phones |-> <<>>]>>
    /\ data = <<>>
    /\ passed = <<>>
    /\ last = NoCall
    /\ inp \in Strings

NextValid == IsPhoneValid(1, inp)

SpecValid == InitValid /\ [][NextValid]_vars

----------------------------------------------------------------------------
(* The vocabulary of the claims. *)

\* The ASCII decimal digits "0".."9".
IsAsciiDigit(c) == c \in 48..57

\* A valid phone number as the specification defines it: exactly 10
\* characters, each an ASCII decimal digit.
TenAsciiDigits(s) == Len(s) = 10 /\ \A i \in 1..Len(s) : IsAsciiDigit(s[i])

Occurs(phones, v) == \E k \in 1..Len(phones) : phones[k] = v
Count(phones, v) == Cardinality({k \in 1..Len(phones) : phones[k] = v})
IsFirst(phones, v, k) ==
    /\ k \in 1..Len(phones)
    /\ phones[k] = v
    /\ \A j \in 1..(k - 1) : phones[j] # v

\* The record find(name) returns, as its caller sees it: its name and phones.
FindView(name) == IF name \in DOMAIN data THEN Some(records[data[name]]) ELSE None

Held == {data[n] : n \in DOMAIN data}
Mutators == {"add_phone", "remove_phone", "edit_phone"}

\* The phones of the record of the last call, after the call.
Post == records[last.rec].phones

----------------------------------------------------------------------------
(* C1, under SpecValid. *)

\* C1: is_phone_valid(s) returns true if and only if s has length exactly
\* 10 and every character of s is an ASCII decimal digit.
C1_ValidIffTenAsciiDigits ==
    last.op = "is_phone_valid" =>
        ((last.ret = Some(TRUE)) <=> TenAsciiDigits(last.a))

\* What the code does instead: true if and only if s has length 10 and
\* every character is numeric; so false for every other length and for
\* every string holding a non-numeric character, true for 10 ASCII digits.
ValidIffTenNumeric ==
    last.op = "is_phone_valid" =>
        /\ (last.ret = Some(TRUE)) <=>
               (Len(last.a) = 10 /\ \A i \in 1..Len(last.a) : IsNumericChar(last.a[i]))
        /\ TenAsciiDigits(last.a) => last.ret = Some(TRUE)
        /\ Len(last.a) # 10 => last.ret = Some(FALSE)

----------------------------------------------------------------------------
(* C2 to C6, under SpecRecord. *)

\* C2: in every reachable state every phone of the record is a string of
\* exactly 10 characters, each an ASCII decimal digit.
C2_StoredPhonesTenAsciiDigits ==
    \A k \in 1..Len(records[1].phones) : TenAsciiDigits(records[1].phones[k])

\* What the code keeps instead: every stored phone passes is_phone_valid.
StoredPhonesPassTheGate ==
    \A k \in 1..Len(records[1].phones) : is_phone_valid(records[1].phones[k])

\* C3: after add_phone(p), find_phone(p) returns a present result of value p
\* if and only if is_phone_valid(p); when is_phone_valid(p), p is the last
\* element and the earlier elements are the old ones in their order; when
\* not, the phones are unchanged.
C3_AddThenFind ==
    last.op = "add_phone" =>
        /\ (find_phone(Post, last.a) = Some(last.a)) <=> is_phone_valid(last.a)
        /\ is_phone_valid(last.a) =>
               /\ Len(Post) = Len(last.pre) + 1
               /\ Post[Len(Post)] = last.a
               /\ \A k \in 1..Len(last.pre) : Post[k] = last.pre[k]
        /\ ~is_phone_valid(last.a) => Post = last.pre

\* C3's witness: a valid number added behind another one, and found.
C3_Witness ==
    /\ last.op = "add_phone"
    /\ last.a = Phone1
    /\ last.pre = <<Phone2>>
    /\ Post = <<Phone2, Phone1>>
    /\ find_phone(Post, Phone1) = Some(Phone1)

\* C4 as claimed: when old is among the phones and new is valid, after
\* edit_phone(old, new) find_phone(old) returns None, find_phone(new) a
\* present result, and new sits at the index of the first occurrence of old.
C4_EditThenFind_Original ==
    (last.op = "edit_phone" /\ Occurs(last.pre, last.a) /\ TenAsciiDigits(last.b)) =>
        /\ find_phone(Post, last.a) = None
        /\ find_phone(Post, last.b) # None
        /\ \A k \in 1..Len(last.pre) : IsFirst(last.pre, last.a, k) => Post[k] = last.b

\* C4 as amended: when old is among the phones and new passes
\* is_phone_valid, after edit_phone(old, new) find_phone(new) returns a
\* present result of value new, new sits at the index of the first
\* occurrence of old, and find_phone(old) returns None exactly when old
\* differs from new and occurred once before the call.
C4_EditThenFind ==
    (last.op = "edit_phone" /\ Occurs(last.pre, last.a) /\ is_phone_valid(last.b)) =>
        /\ find_phone(Post, last.b) = Some(last.b)
        /\ \A k \in 1..Len(last.pre) : IsFirst(last.pre, last.a, k) => Post[k] = last.b
        /\ (find_phone(Post, last.a) = None) <=>
               (last.a # last.b /\ Count(last.pre, last.a) = 1)

\* C4's witness: old occurs twice, the first occurrence is edited and the
\* second is still found.
C4_Witness ==
    /\ last.op = "edit_phone"
    /\ last.a = Phone1
    /\ last.b = Phone2
    /\ last.pre = <<Phone2, Phone1, Phone1>>
    /\ Post = <<Phone2, Phone2, Phone1>>
    /\ find_phone(Post, Phone1) = Some(Phone1)

\* C5: edit_phone(old, new) leaves the phones unchanged whenever new is
\* not a valid phone number, whether old is present or not, and whenever
\* old is not among the phones; when it changes them, exactly one position
\* changes and the length and all other positions stay.
C5_EditFrame ==
    last.op = "edit_phone" =>
        /\ (~TenAsciiDigits(last.b) \/ ~Occurs(last.pre, last.a)) => Post = last.pre
        /\ Len(Post) = Len(last.pre)
        /\ Post # last.pre =>
               Cardinality({k \in 1..Len(Post) : Post[k] # last.pre[k]}) = 1

\* What the code keeps instead: the same with "not valid" read as "rejected
\* by is_phone_valid".
EditFrameUnderTheGate ==
    last.op = "edit_phone" =>
        /\ (~is_phone_valid(last.b) \/ ~Occurs(last.pre, last.a)) => Post = last.pre
        /\ Len(Post) = Len(last.pre)
        /\ Post # last.pre =>
               Cardinality({k \in 1..Len(Post) : Post[k] # last.pre[k]}) = 1

\* C6: when p is among the phones, remove_phone(p) deletes exactly its first
\* occurrence: the length drops by one, later duplicates stay and the other
\* elements keep their order; when p is not, the phones are unchanged.
C6_RemoveFirst ==
    last.op = "remove_phone" =>
        /\ ~Occurs(last.pre, last.a) => Post = last.pre
        /\ Occurs(last.pre, last.a) =>
               /\ Len(Post) = Len(last.pre) - 1
               /\ Count(Post, last.a) = Count(last.pre, last.a) - 1
               /\ \A k \in 1..Len(last.pre) :
                      IsFirst(last.pre, last.a, k) =>
                          /\ \A j \in 1..(k - 1) : Post[j] = last.pre[j]
                          /\ \A j \in k..Len(Post) : Post[j] = last.pre[j + 1]

\* C6's witness: p occurs twice, the first occurrence goes, the second stays.
C6_Witness ==
    /\ last.op = "remove_phone"
    /\ last.a = Phone1
    /\ last.pre = <<Phone1, Phone2, Phone1>>
    /\ Post = <<Phone2, Phone1>>

----------------------------------------------------------------------------
(* C7 to C10, under Spec. *)

\* C7: right after add_record(r), find(r.name) returns r itself; right after
\* delete(r.name), find(r.name) returns None.
C7_AddFindDeleteFind ==
    /\ last.op = "add_record" => find(data, last.name) = Some(last.rec)
    /\ last.op = "delete" => find(data, last.name) = None

\* C7's witness: a record that was in the book has been deleted.
C7_Witness ==
    /\ last.op = "delete"
    /\ last.was # None
    /\ find(data, last.name) = None

\* C8: after add_record(r2) over a different record r1 of the same name,
\* find(name) returns r2, the book holds the name once, r1 is not held under
\* any name, and r2 has the phones it had before the call.
C8_Overwrite ==
    (last.op = "add_record" /\ last.was # None /\ last.was # Some(last.rec)) =>
        /\ find(data, last.name) = Some(last.rec)
        /\ Cardinality({n \in DOMAIN data : n = last.name}) = 1
        /\ last.was[1] \notin Held
        /\ Post = last.pre
        /\ FindView(last.name) = Some([name |-> last.name, phones |-> last.pre])

\* C8's witness: a record with a phone is overwritten by one without.
C8_Witness ==
    /\ last.op = "add_record"
    /\ last.was # None
    /\ last.was # Some(last.rec)
    /\ records[last.was[1]].phones # <<>>
    /\ FindView(last.name) = Some([name |-> last.name, phones |-> <<>>])

\* C9: delete(name) raises nothing; with no entry for name it leaves the
\* mapping unchanged; with one it removes that entry and leaves the entry
\* of every other name unchanged.
C9_DeleteFrame ==
    [][last'.op = "delete" =>
          /\ last'.raised = None
          /\ last'.name \notin DOMAIN data => data' = data
          /\ last'.name \in DOMAIN data =>
                 /\ DOMAIN data' = DOMAIN data \ {last'.name}
                 /\ \A n \in DOMAIN data' : data'[n] = data[n]
          /\ records' = records]_vars

\* C9's witness: delete of a name the book does not hold, another name held.
C9_Witness ==
    /\ last.op = "delete"
    /\ last.was = None
    /\ last.raised = None
    /\ DOMAIN data # {}

\* C10: the book holds the record passed to add_record itself: as long as r
\* is the entry under its name, find shows r with its current phones, so a
\* phone added, removed or edited on r is seen through find; and once r is
\* overwritten or deleted, a phone call on r changes what find returns for
\* no name.
C10_StoredByReference ==
    [][/\ \A n \in DOMAIN passed' :
              /\ find(data', n) = Some(passed'[n])
              /\ FindView(n)' = Some(records'[passed'[n]])
       /\ (last'.op \in Mutators /\ last'.rec \notin {passed[n] : n \in DOMAIN passed}) =>
              \A n \in Names : FindView(n)' = FindView(n)]_vars

\* C10's witness: a phone edited on a record after it was added to the book,
\* and seen through find.
C10_Witness ==
    /\ last.op = "edit_phone"
    /\ Post # last.pre
    /\ records[last.rec].name \in DOMAIN passed
    /\ passed[records[last.rec].name] = last.rec
    /\ FindView(records[last.rec].name) =
           Some([name |-> records[last.rec].name, phones |-> <<last.b>>])

====
